---- MODULE Spec2Model ----
(***************************************************************************)
(* Timetable scheduling core (scheduler.py, models.py, data_manager.py).   *)
(*                                                                         *)
(* State: the scheduler's entity lists (self.faculty, self.classrooms,     *)
(* self.courses), its period list (self.time_periods) and the list the     *)
(* last call returned.  Operations: set_time_periods, generate_timetable   *)
(* and handle_last_minute_changes.                                         *)
(*                                                                         *)
(* A time of day is the number of seconds since midnight.  Faculty and     *)
(* Classroom objects are mutable (the repair appends to unavailable_slots) *)
(* and are shared by reference between the scheduler's lists and the       *)
(* assignments: an assignment therefore holds the faculty and classroom    *)
(* ids and reads the objects from the scheduler's lists.  Course and       *)
(* TimeSlot objects are never written, so an assignment holds their value. *)
(*                                                                         *)
(* Specifications: Spec (construct, set_time_periods, generate_timetable), *)
(* RepairSpec (the same followed by handle_last_minute_changes),           *)
(* ObjectiveSpec (generate_timetable with its three toggles, on input that *)
(* may be malformed), ModelsSpec (the TimeSlot and Assignment methods of   *)
(* models.py on their own), ExportSpec (the data manager's save_timetable  *)
(* and export_timetable_to_csv) and RepeatSpec (handle_last_minute_changes *)
(* called twice with the same arguments).                                  *)
(***************************************************************************)
EXTENDS Integers, Sequences, FiniteSets, TLC

VARIABLES
    faculty,        \* self.faculty: sequence of Faculty records
    classrooms,     \* self.classrooms: sequence of Classroom records
    courses,        \* self.courses: sequence of Course records
    time_periods,   \* self.time_periods: sequence of <<start, end>>
    timetable,      \* the list returned by the last call
    status,         \* the outcome of the last CP-SAT solve
    call            \* the last call and its arguments

vars == <<faculty, classrooms, courses, time_periods, timetable, status, call>>

(***************************************************************************)
(* Bounds of the model.                                                    *)
(***************************************************************************)
NumPeriods == 2         \* hourly periods kept from the default grid
MaxTotalHours == 2      \* largest sum of hours_per_week over a course list
MaxWeeklyHours == 2     \* largest weekly_hours of a faculty
SubMinuteSteps == 3     \* half-minute steps after 08:00 a slot may start or end at
MaxSaved == 2           \* most assignments of a saved timetable

(***************************************************************************)
(* Small helpers on sequences and sets.                                    *)
(***************************************************************************)
Range(s) == {s[i] : i \in DOMAIN s}

RECURSIVE DedupSeq(_)
\* The elements of s in order of first occurrence (the keys of a dict built
\* by inserting s in order).
DedupSeq(s) ==
    IF s = <<>> THEN <<>>
    ELSE LET init == DedupSeq(SubSeq(s, 1, Len(s) - 1))
             last == s[Len(s)]
         IN  IF last \in Range(init) THEN init ELSE Append(init, last)

RECURSIVE KSubsets(_, _)
\* The subsets of S with exactly k elements (none when k < 0 or k > |S|).
KSubsets(S, k) ==
    IF k < 0 \/ k > Cardinality(S) THEN {}
    ELSE IF k = 0 THEN {{}}
    ELSE LET e == CHOOSE x \in S : TRUE
         IN  {T \cup {e} : T \in KSubsets(S \ {e}, k - 1)}
                \cup KSubsets(S \ {e}, k)

(***************************************************************************)
(* models.py: TimeSlot.                                                    *)
(***************************************************************************)
Hour(h) == h * 3600

TimeSlot(day, start_time, end_time) ==
    [day |-> day, start_time |-> start_time, end_time |-> end_time]

\* Weakened variant of overlaps: slots that only touch count as overlapping.
overlaps_Touching(self, other) ==
    IF self.day # other.day THEN FALSE
    ELSE self.start_time <= other.end_time /\ other.start_time <= self.end_time

overlaps(self, other) ==
    IF self.day # other.day THEN FALSE
    ELSE self.start_time < other.end_time /\ other.start_time < self.end_time

\* time.strftime('%H:%M'): the hour and the minute, the seconds dropped.
strftime(t) == <<t \div 3600, (t % 3600) \div 60>>

\* datetime.strptime(s, '%H:%M').time()
strptime(s) == s[1] * 3600 + s[2] * 60

\* TimeSlot.__eq__ (other is always a TimeSlot here): day and both times,
\* compared as datetime.time values.
TimeSlot_eq(self, other) ==
    /\ self.day = other.day
    /\ self.start_time = other.start_time
    /\ self.end_time = other.end_time

\* TimeSlot.__hash__: the hash of a tuple is a function of the tuple, which
\* stands for it.
TimeSlot_hash(self) ==
    <<self.day, strftime(self.start_time), strftime(self.end_time)>>

TimeSlot_to_dict(self) ==
    [day |-> self.day,
     start_time |-> strftime(self.start_time),
     end_time |-> strftime(self.end_time)]

TimeSlot_from_dict(data) ==
    TimeSlot(data.day, strptime(data.start_time), strptime(data.end_time))

(***************************************************************************)
(* scheduler.py: TimetableScheduler.__init__ and the slot grid.            *)
(***************************************************************************)
\* self.days, cut to its first two days.
days == <<"Monday", "Tuesday">>

FirstHour == 8

DefaultPeriods ==
    [i \in 1..NumPeriods |-> <<Hour(FirstHour + i - 1), Hour(FirstHour + i)>>]

\* The slots of generate_timetable, day by day and period by period.
time_slots(periods) ==
    [k \in 1..(Len(days) * Len(periods)) |->
        LET d == ((k - 1) \div Len(periods)) + 1
            p == ((k - 1) % Len(periods)) + 1
        IN  TimeSlot(days[d], periods[p][1], periods[p][2])]

(***************************************************************************)
(* Entity lookups (next(x for x in list if x.id == id)).                   *)
(***************************************************************************)
ById(list, id) ==
    list[CHOOSE i \in DOMAIN list :
            /\ list[i].id = id
            /\ \A j \in DOMAIN list : list[j].id = id => i <= j]

HasId(list, id) == \E i \in DOMAIN list : list[i].id = id

Assignment(course, f_id, r_id, ts) ==
    [course |-> course, faculty |-> f_id, classroom |-> r_id, time_slot |-> ts]

(***************************************************************************)
(* generate_timetable: the eligibility filter (the loops that create the   *)
(* Boolean variables).                                                     *)
(***************************************************************************)
\* Weakened variant of HasExpertise: the expertise filter left out.
HasExpertise_NoFilter(course, f) == TRUE

\* "Skip faculty without required expertise for this course" is negated:
\* the faculty is kept when the course asks for nothing or shares a tag.
HasExpertise(course, f) ==
    \/ course.faculty_requirements = {}
    \/ \E req \in course.faculty_requirements : req \in f.expertise

\* Weakened variant of RoomFits: the facility test left out.
RoomFits_NoFacilities(course, classroom) ==
    ~ \/ classroom.capacity < course.min_capacity
      \/ classroom.room_type # course.required_room_type

\* "Skip classrooms that don't meet the course requirements", negated.
RoomFits(course, classroom) ==
    ~ \/ classroom.capacity < course.min_capacity
      \/ classroom.room_type # course.required_room_type
      \/ ~ \A facility \in course.required_facilities :
                facility \in classroom.facilities

\* Weakened variant of Unavailable: membership (time_slot in unavailable_slots) in
\* place of the overlap test.
Unavailable_ExactSlot(entity, time_slot) ==
    \E i \in DOMAIN entity.unavailable_slots :
        entity.unavailable_slots[i] = time_slot

\* any(unavailable_slot.overlaps(time_slot) for unavailable_slot in ...)
Unavailable(entity, time_slot) ==
    \E i \in DOMAIN entity.unavailable_slots :
        overlaps(entity.unavailable_slots[i], time_slot)

\* Every (course, faculty, classroom, slot) in the order of the four loops.
AllBindings(cs, fs, rs, slots) ==
    LET nf == Len(fs)
        nr == Len(rs)
        nt == Len(slots)
    IN  [k \in 1..(Len(cs) * nf * nr * nt) |->
            Assignment(cs[((k - 1) \div (nf * nr * nt)) + 1],
                       fs[(((k - 1) \div (nr * nt)) % nf) + 1].id,
                       rs[(((k - 1) \div nt) % nr) + 1].id,
                       slots[((k - 1) % nt) + 1])]

\* The keys of the dict `assignments`, in insertion order.  A course or a
\* slot listed twice writes the same keys again, which leaves the key order
\* as it was.
Bindings(cs, fs, rs, periods) ==
    LET Admissible(b) ==
            /\ HasExpertise(b.course, ById(fs, b.faculty))
            /\ RoomFits(b.course, ById(rs, b.classroom))
            /\ ~ Unavailable(ById(fs, b.faculty), b.time_slot)
            /\ ~ Unavailable(ById(rs, b.classroom), b.time_slot)
    IN  SelectSeq(AllBindings(DedupSeq(cs), fs, rs, DedupSeq(time_slots(periods))),
                  Admissible)

(***************************************************************************)
(* generate_timetable: the hard constraints.  A valuation of the Boolean   *)
(* variables is the set x of the bindings whose variable is 1.             *)
(***************************************************************************)
\* Constraint 1, for one course: the valuations of its variables the
\* constraint admits.  The constraint is added only when the course has a
\* variable at all.
DemandChoices(course_assignments, course) ==
    IF course_assignments # {}
    THEN KSubsets(course_assignments, course.hours_per_week)
    ELSE {{}}

RECURSIVE DemandValuations(_, _)
\* The valuations that satisfy constraint 1 for every course of cs: every
\* variable belongs to exactly one course, so they are the unions of one
\* choice per course.
DemandValuations(cs, keys) ==
    IF cs = <<>> THEN {{}}
    ELSE LET course == Head(cs)
             mine == {b \in keys : b.course.id = course.id}
         IN  {own \cup rest : own \in DemandChoices(mine, course),
                              rest \in DemandValuations(Tail(cs), keys)}

\* Weakened variant of FacultyNoOverlap: ts == time_slot in place of ts.overlaps.
FacultyNoOverlap_ExactSlot(x, keys, fs, slots) ==
    \A i \in DOMAIN fs : \A j \in DOMAIN slots :
        LET conflicting_assignments ==
                {b \in keys : b.faculty = fs[i].id /\ b.time_slot = slots[j]}
        IN  Cardinality(conflicting_assignments) > 1
                => Cardinality(conflicting_assignments \cap x) <= 1

\* Constraint 2: per faculty and slot of the grid, at most one of the
\* variables whose slot overlaps that slot (when there are two or more).
FacultyNoOverlap(x, keys, fs, slots) ==
    \A i \in DOMAIN fs : \A j \in DOMAIN slots :
        LET conflicting_assignments ==
                {b \in keys : b.faculty = fs[i].id
                                /\ overlaps(b.time_slot, slots[j])}
        IN  Cardinality(conflicting_assignments) > 1
                => Cardinality(conflicting_assignments \cap x) <= 1

\* Weakened variant of ClassroomNoOverlap: ts == time_slot in place of ts.overlaps.
ClassroomNoOverlap_ExactSlot(x, keys, rs, slots) ==
    \A i \in DOMAIN rs : \A j \in DOMAIN slots :
        LET conflicting_assignments ==
                {b \in keys : b.classroom = rs[i].id /\ b.time_slot = slots[j]}
        IN  Cardinality(conflicting_assignments) > 1
                => Cardinality(conflicting_assignments \cap x) <= 1

\* Constraint 3: the same per classroom.
ClassroomNoOverlap(x, keys, rs, slots) ==
    \A i \in DOMAIN rs : \A j \in DOMAIN slots :
        LET conflicting_assignments ==
                {b \in keys : b.classroom = rs[i].id
                                /\ overlaps(b.time_slot, slots[j])}
        IN  Cardinality(conflicting_assignments) > 1
                => Cardinality(conflicting_assignments \cap x) <= 1

\* Weakened variant of WeeklyHoursCap: the bound off by one.
WeeklyHoursCap_OffByOne(x, keys, fs) ==
    \A i \in DOMAIN fs :
        LET faculty_assignments == {b \in keys : b.faculty = fs[i].id}
        IN  faculty_assignments # {}
                => Cardinality(faculty_assignments \cap x) <= fs[i].weekly_hours + 1

\* Constraint 4: per faculty with a variable, at most weekly_hours of them.
WeeklyHoursCap(x, keys, fs) ==
    \A i \in DOMAIN fs :
        LET faculty_assignments == {b \in keys : b.faculty = fs[i].id}
        IN  faculty_assignments # {}
                => Cardinality(faculty_assignments \cap x) <= fs[i].weekly_hours

\* The valuations that satisfy every constraint of the model.
Solutions(cs, fs, rs, periods) ==
    LET keys == Range(Bindings(cs, fs, rs, periods))
        slots == time_slots(periods)
    IN  {x \in DemandValuations(DedupSeq(cs), keys) :
            /\ FacultyNoOverlap(x, keys, fs, slots)
            /\ ClassroomNoOverlap(x, keys, rs, slots)
            /\ WeeklyHoursCap(x, keys, fs)}

(***************************************************************************)
(* generate_timetable: the solve and the extraction of the result.  The    *)
(* solver answers with a valuation that satisfies the constraints          *)
(* (OPTIMAL or FEASIBLE), with INFEASIBLE when there is none, or with      *)
(* UNKNOWN when max_time_in_seconds ran out first; the list is empty       *)
(* unless a valuation was found.                                           *)
(***************************************************************************)
\* for key, var in assignments.items(): if solver.Value(var) == 1: append
Extract(x, bindings) == SelectSeq(bindings, LAMBDA b : b \in x)

generate_timetable(cs, fs, rs, periods) ==
    LET sols == Solutions(cs, fs, rs, periods)
        bindings == Bindings(cs, fs, rs, periods)
    IN  {[status |-> "FEASIBLE", result |-> Extract(x, bindings)] : x \in sols}
        \cup {[status |-> "UNKNOWN", result |-> <<>>]}
        \cup (IF sols = {}
              THEN {[status |-> "INFEASIBLE", result |-> <<>>]}
              ELSE {})

(***************************************************************************)
(* The entities a scheduler is constructed with.                           *)
(***************************************************************************)
Faculty(id, weekly_hours, expertise, unavailable_slots) ==
    [id |-> id, weekly_hours |-> weekly_hours, expertise |-> expertise,
     unavailable_slots |-> unavailable_slots, preferred_slots |-> <<>>]

Classroom(id, capacity, room_type, facilities, unavailable_slots) ==
    [id |-> id, capacity |-> capacity, room_type |-> room_type,
     facilities |-> facilities, unavailable_slots |-> unavailable_slots]

\* A course of the inputs carries its id as its code.
Course(id, dept, hours, room_type, facilities, min_capacity, requirements) ==
    [id |-> id, code |-> id, department |-> dept, hours_per_week |-> hours,
     required_room_type |-> room_type, required_facilities |-> facilities,
     min_capacity |-> min_capacity, faculty_requirements |-> requirements]

CourseIds == <<"CS101", "CS102", "CS103", "CS104">>

\* The courses of the inputs: a plain lecture, a lecture that needs a
\* projector and two expertise tags, a lab, and a lecture too large for
\* every room.
CourseChoices ==
    UNION {{Course("CS101", "D1", h, "Lecture", {}, 10, {}),
            Course("CS102", "D1", h, "Lecture", {"Projector"}, 10, {"AI", "ML"}),
            Course("CS103", "D2", h, "Lab", {}, 10, {"AI"}),
            Course("CS104", "D2", h, "Lecture", {}, 100, {})}
           : h \in 1..MaxTotalHours}

RECURSIVE TotalHours(_)
TotalHours(cs) ==
    IF cs = <<>> THEN 0 ELSE Head(cs).hours_per_week + TotalHours(Tail(cs))

\* Course lists, in the order of the course ids.
CourseLists ==
    {cs \in UNION {[1..n -> CourseChoices] : n \in 0..MaxTotalHours} :
        /\ \A i, j \in DOMAIN cs : i < j =>
                \E k \in 1..4 : /\ cs[i].id = CourseIds[k]
                                /\ \E l \in (k + 1)..4 : cs[j].id = CourseIds[l]
        /\ TotalHours(cs) <= MaxTotalHours}

WholeMonday == TimeSlot("Monday", Hour(8), Hour(18))
MondayFirst == TimeSlot("Monday", Hour(FirstHour), Hour(FirstHour + 1))

FacultyLists ==
    {<<Faculty("F1", w1, {"AI", "ML"}, u1), Faculty("F2", w2, e2, <<>>)>> :
        w1 \in 0..MaxWeeklyHours, w2 \in {1, MaxWeeklyHours},
        u1 \in {<<>>, <<WholeMonday>>}, e2 \in {{}, {"AI"}}}

ClassroomLists ==
    {<<Classroom("R1", 30, "Lecture", {}, u1),
       Classroom("R2", 50, t2, {"Projector"}, <<>>)>> :
        u1 \in {<<>>, <<MondayFirst>>}, t2 \in {"Lecture", "Lab"}}

\* A period list a caller may pass to set_time_periods: two periods that
\* overlap each other.
OverlappingPeriods ==
    <<<<Hour(FirstHour), Hour(FirstHour + 2)>>,
      <<Hour(FirstHour + 1), Hour(FirstHour + 3)>>>>

PeriodChoices == {OverlappingPeriods}

NoCall == [op |-> "__init__"]

Init ==
    /\ faculty \in FacultyLists
    /\ classrooms \in ClassroomLists
    /\ courses \in CourseLists
    /\ time_periods = DefaultPeriods
    /\ timetable = <<>>
    /\ status = "NONE"
    /\ call = NoCall

(***************************************************************************)
(* The operations.                                                         *)
(***************************************************************************)
SetTimePeriods ==
    /\ call.op = "__init__"
    /\ \E periods \in PeriodChoices :
        /\ call' = [op |-> "set_time_periods"]
        /\ time_periods' = periods
    /\ UNCHANGED <<faculty, classrooms, courses, timetable, status>>

Generate ==
    /\ call.op \in {"__init__", "set_time_periods"}
    /\ \E out \in generate_timetable(courses, faculty, classrooms, time_periods) :
        /\ timetable' = out.result
        /\ status' = out.status
    /\ call' = [op |-> "generate_timetable"]
    /\ UNCHANGED <<faculty, classrooms, courses, time_periods>>

Next ==
    \/ SetTimePeriods
    \/ Generate

Spec == Init /\ [][Next]_vars

(***************************************************************************)
(* handle_last_minute_changes.  unavailable_faculty and                    *)
(* unavailable_classrooms are used for membership only and are sets of     *)
(* ids; additional_courses is a sequence of courses.                       *)
(***************************************************************************)
\* Weakened variant of IsDisplaced: any unavailable id displaces everything.
IsDisplaced_Everything(a, unavailable_faculty, unavailable_classrooms) ==
    unavailable_faculty # {} \/ unavailable_classrooms # {}

\* The test that sends an assignment to rescheduling.
IsDisplaced(a, unavailable_faculty, unavailable_classrooms) ==
    \/ unavailable_faculty # {} /\ a.faculty \in unavailable_faculty
    \/ unavailable_classrooms # {} /\ a.classroom \in unavailable_classrooms

\* Weakened variant of KeptAssignments: only an unavailable faculty displaces.
KeptAssignments_FacultyOnly(tt, unavailable_faculty, unavailable_classrooms) ==
    SelectSeq(tt, LAMBDA a : a.faculty \notin unavailable_faculty)

\* updated_timetable after the first loop: the assignments kept as they are.
KeptAssignments(tt, unavailable_faculty, unavailable_classrooms) ==
    SelectSeq(tt, LAMBDA a :
        ~ IsDisplaced(a, unavailable_faculty, unavailable_classrooms))

\* affected_courses: the course of every displaced assignment, one entry per
\* assignment, followed by the additional courses.
AffectedCourses(tt, unavailable_faculty, unavailable_classrooms, additional_courses) ==
    LET displaced == SelectSeq(tt, LAMBDA a :
            IsDisplaced(a, unavailable_faculty, unavailable_classrooms))
    IN  [i \in DOMAIN displaced |-> displaced[i].course] \o additional_courses

\* Weakened variant of Available: nobody is left out.
Available_Everyone(list, unavailable) == list

\* available_faculty and available_classrooms.
Available(list, unavailable) ==
    SelectSeq(list, LAMBDA e : unavailable = {} \/ e.id \notin unavailable)

\* used_time_slots, before the fallback: (id, slot) of every kept assignment.
UsedByKept(kept) ==
    {<<kept[i].faculty, kept[i].time_slot>> : i \in DOMAIN kept}
        \cup {<<kept[i].classroom, kept[i].time_slot>> : i \in DOMAIN kept}

RECURSIVE AppendKeptSlots(_, _)
\* unavailable_slots after appending, in order, each slot of `slots` that no
\* slot already in the list overlaps.
AppendKeptSlots(unavailable_slots, slots) ==
    IF slots = <<>> THEN unavailable_slots
    ELSE AppendKeptSlots(
            IF \E i \in DOMAIN unavailable_slots :
                    overlaps(unavailable_slots[i], Head(slots))
            THEN unavailable_slots
            ELSE Append(unavailable_slots, Head(slots)),
            Tail(slots))

\* The scheduler's faculty list after the loop that blocks the slots of the
\* kept assignments: the Faculty objects of available_faculty are the
\* scheduler's own, and are written in place.
BlockFaculty(fs, kept, unavailable_faculty) ==
    [k \in DOMAIN fs |->
        IF unavailable_faculty = {} \/ fs[k].id \notin unavailable_faculty
        THEN LET mine == SelectSeq(kept, LAMBDA a : a.faculty = fs[k].id)
             IN  [fs[k] EXCEPT !.unavailable_slots =
                    AppendKeptSlots(@, [i \in DOMAIN mine |-> mine[i].time_slot])]
        ELSE fs[k]]

\* The same for the classrooms.
BlockClassrooms(rs, kept, unavailable_classrooms) ==
    [k \in DOMAIN rs |->
        IF unavailable_classrooms = {} \/ rs[k].id \notin unavailable_classrooms
        THEN LET mine == SelectSeq(kept, LAMBDA a : a.classroom = rs[k].id)
             IN  [rs[k] EXCEPT !.unavailable_slots =
                    AppendKeptSlots(@, [i \in DOMAIN mine |-> mine[i].time_slot])]
        ELSE rs[k]]

(***************************************************************************)
(* handle_last_minute_changes: the fallback for the courses the residual   *)
(* solve left out.                                                         *)
(***************************************************************************)
\* Weakened variant of FallbackFits: the two unavailable_slots tests left out.
FallbackFits_UsedOnly(ts, suitable_faculty, suitable_classrooms, used) ==
    {p \in (DOMAIN suitable_faculty) \X (DOMAIN suitable_classrooms) :
        /\ <<suitable_faculty[p[1]].id, ts>> \notin used
        /\ <<suitable_classrooms[p[2]].id, ts>> \notin used}

\* The (faculty, classroom) index pairs the two inner loops accept at slot ts.
FallbackFits(ts, suitable_faculty, suitable_classrooms, used) ==
    {p \in (DOMAIN suitable_faculty) \X (DOMAIN suitable_classrooms) :
        /\ <<suitable_faculty[p[1]].id, ts>> \notin used
        /\ ~ Unavailable(suitable_faculty[p[1]], ts)
        /\ <<suitable_classrooms[p[2]].id, ts>> \notin used
        /\ ~ Unavailable(suitable_classrooms[p[2]], ts)}

\* The pair the loops reach first: faculty in list order, then classrooms.
FirstPair(fits) ==
    CHOOSE p \in fits :
        \A q \in fits : p[1] < q[1] \/ (p[1] = q[1] /\ p[2] <= q[2])

RECURSIVE FallbackScan(_, _, _, _, _, _)
\* The loops over days and periods for one course, from slot k on: the
\* assignment placed, or <<>>.  After a slot the loops are left as soon as
\* (faculty.id, ts) is in used_time_slots for some suitable faculty, which
\* is so after a placement and also when a commitment made earlier is there.
FallbackScan(course, slots, k, suitable_faculty, suitable_classrooms, used) ==
    IF k > Len(slots) THEN <<>>
    ELSE LET ts == slots[k]
             fits == FallbackFits(ts, suitable_faculty, suitable_classrooms, used)
         IN  IF fits # {}
             THEN <<Assignment(course,
                               suitable_faculty[FirstPair(fits)[1]].id,
                               suitable_classrooms[FirstPair(fits)[2]].id, ts)>>
             ELSE IF \E i \in DOMAIN suitable_faculty :
                        <<suitable_faculty[i].id, ts>> \in used
             THEN <<>>
             ELSE FallbackScan(course, slots, k + 1,
                               suitable_faculty, suitable_classrooms, used)

RECURSIVE Fallback(_, _, _, _, _)
\* The loop over unscheduled_courses: the assignments appended, in order.
Fallback(unscheduled, slots, fs, rs, used) ==
    IF unscheduled = <<>> THEN <<>>
    ELSE LET course == Head(unscheduled)
             suitable_faculty ==
                SelectSeq(fs, LAMBDA f :
                    \/ course.faculty_requirements = {}
                    \/ \E req \in course.faculty_requirements : req \in f.expertise)
             suitable_classrooms ==
                SelectSeq(rs, LAMBDA c :
                    /\ c.capacity >= course.min_capacity
                    /\ c.room_type = course.required_room_type
                    /\ \A facility \in course.required_facilities :
                            facility \in c.facilities)
             placed ==
                IF suitable_faculty = <<>> \/ suitable_classrooms = <<>>
                THEN <<>>
                ELSE FallbackScan(course, slots, 1,
                                  suitable_faculty, suitable_classrooms, used)
             marked ==
                IF placed = <<>> THEN used
                ELSE used \cup {<<placed[1].faculty, placed[1].time_slot>>,
                                <<placed[1].classroom, placed[1].time_slot>>}
         IN  placed \o Fallback(Tail(unscheduled), slots, fs, rs, marked)

(***************************************************************************)
(* handle_last_minute_changes: everything after the two early returns, one *)
(* outcome per answer of the residual solve.  The mini-scheduler is a new  *)
(* TimetableScheduler, so it has the default periods of __init__.          *)
(***************************************************************************)
Reschedule(tt, uf, ur, additional_courses, fs, rs, periods) ==
    LET kept == KeptAssignments(tt, uf, ur)
        affected_courses == AffectedCourses(tt, uf, ur, additional_courses)
        fs2 == BlockFaculty(fs, kept, uf)
        rs2 == BlockClassrooms(rs, kept, ur)
        available_faculty == Available(fs2, uf)
        available_classrooms == Available(rs2, ur)
    IN  {LET additional_assignments == out.result
             scheduled_course_ids ==
                {additional_assignments[i].course.id :
                    i \in DOMAIN additional_assignments}
             unscheduled_courses ==
                SelectSeq(affected_courses,
                          LAMBDA c : c.id \notin scheduled_course_ids)
             fallback ==
                IF Len(additional_assignments) < Len(affected_courses)
                THEN Fallback(unscheduled_courses, time_slots(periods),
                              available_faculty, available_classrooms,
                              UsedByKept(kept))
                ELSE <<>>
         IN  [result |-> kept \o additional_assignments \o fallback,
              faculty |-> fs2, classrooms |-> rs2,
              status |-> out.status, kept |-> kept,
              additional |-> additional_assignments,
              fallback |-> fallback]
         : out \in generate_timetable(affected_courses, available_faculty,
                                      available_classrooms, DefaultPeriods)}

\* An optional argument: None, or Some(v) for the value v.
None == <<>>
Some(v) == <<v>>

\* "if x is None: x = []"
OrEmpty(arg, empty) == IF arg = None THEN empty ELSE arg[1]

\* Weakened variant of handle_last_minute_changes: the two early returns
\* left out.
handle_last_minute_changes_NoEarlyReturn(tt, uf_arg, ur_arg, ac_arg, fs, rs, periods) ==
    Reschedule(tt, OrEmpty(uf_arg, {}), OrEmpty(ur_arg, {}), OrEmpty(ac_arg, <<>>),
               fs, rs, periods)

\* The call as a whole: its outcomes, each with the list returned and the
\* scheduler's entity lists after the call.
handle_last_minute_changes(tt, uf_arg, ur_arg, ac_arg, fs, rs, periods) ==
    LET uf == OrEmpty(uf_arg, {})
        ur == OrEmpty(ur_arg, {})
        additional_courses == OrEmpty(ac_arg, <<>>)
        unchanged == [result |-> tt, faculty |-> fs, classrooms |-> rs,
                      status |-> "NONE", kept |-> tt,
                      additional |-> <<>>, fallback |-> <<>>]
    IN  IF uf = {} /\ ur = {} /\ additional_courses = <<>> THEN {unchanged}
        ELSE IF AffectedCourses(tt, uf, ur, additional_courses) = <<>>
        THEN {unchanged}
        ELSE Reschedule(tt, uf, ur, additional_courses, fs, rs, periods)

\* The arguments of the repair calls: any set of faculty ids, any set of
\* classroom ids, and no course, one new one-hour lecture, or two new
\* lectures that require different expertise.
AdditionalChoices ==
    {<<>>,
     <<Course("CS105", "D1", 1, "Lecture", {}, 10, {})>>,
     <<Course("CS106", "D1", 2, "Lecture", {}, 10, {"ML"}),
       Course("CS107", "D2", 1, "Lecture", {}, 10, {"AI"})>>}

IdsOf(list) == {list[i].id : i \in DOMAIN list}

\* The argument triples of the repair calls: every combination of given
\* values, and every combination of None and the empty list.
RepairArguments ==
    {<<Some(uf), Some(ur), Some(ac)>> :
        uf \in SUBSET IdsOf(faculty), ur \in SUBSET IdsOf(classrooms),
        ac \in AdditionalChoices}
    \cup ({None, Some({})} \X {None, Some({})} \X {None, Some(<<>>)})

Repair ==
    /\ call.op = "generate_timetable"
    /\ \E args \in RepairArguments :
        \E out \in handle_last_minute_changes(timetable, args[1], args[2], args[3],
                                              faculty, classrooms, time_periods) :
            /\ timetable' = out.result
            /\ faculty' = out.faculty
            /\ classrooms' = out.classrooms
            /\ status' = out.status
            /\ call' = [op |-> "handle_last_minute_changes",
                        timetable |-> timetable,
                        unavailable_faculty |-> args[1],
                        unavailable_classrooms |-> args[2],
                        additional_courses |-> args[3],
                        faculty |-> faculty,
                        classrooms |-> classrooms,
                        kept |-> out.kept,
                        additional |-> out.additional,
                        fallback |-> out.fallback]
    /\ UNCHANGED <<courses, time_periods>>

\* The schedulers the repair is explored from: two faculty whose expertise
\* may be disjoint, one lecture room and one lab.
RepairFacultyLists ==
    {<<Faculty("F1", w1, e1, <<>>), Faculty("F2", MaxWeeklyHours, {"AI"}, <<>>)>> :
        w1 \in {1, MaxWeeklyHours}, e1 \in {{"AI", "ML"}, {"ML"}}}

RepairClassroomLists ==
    {<<Classroom("R1", 30, "Lecture", {}, <<>>),
       Classroom("R2", 50, "Lab", {"Projector"}, <<>>)>>}

\* The course lists the repair is explored from: the plain lecture or the
\* lab (the courses that have a candidate with these rooms) with any hours,
\* or both with one hour each.
RepairCourseLists ==
    {cs \in CourseLists :
        /\ \A i \in DOMAIN cs : cs[i].id \in {"CS101", "CS103"}
        /\ Len(cs) > 1 => \A i \in DOMAIN cs : cs[i].hours_per_week = 1}

InitRepair ==
    /\ faculty \in RepairFacultyLists
    /\ classrooms \in RepairClassroomLists
    /\ courses \in RepairCourseLists
    /\ time_periods = DefaultPeriods
    /\ timetable = <<>>
    /\ status = "NONE"
    /\ call = NoCall

NextRepair ==
    \/ SetTimePeriods
    \/ Generate
    \/ Repair

RepairSpec == InitRepair /\ [][NextRepair]_vars

(***************************************************************************)
(* The repair called twice: a caller that repairs a timetable and passes   *)
(* the list it got back, with the same arguments, to the repair once more. *)
(* The scheduler it starts from has a faculty and a classroom that are     *)
(* unavailable in the first slot of the week.                              *)
(***************************************************************************)
RepeatFacultyLists ==
    {<<Faculty("F1", MaxWeeklyHours, {"AI", "ML"}, <<MondayFirst>>),
       Faculty("F2", MaxWeeklyHours, {"AI"}, <<>>)>>}

RepeatClassroomLists ==
    {<<Classroom("R1", 30, "Lecture", {}, <<>>),
       Classroom("R2", 50, "Lab", {"Projector"}, <<MondayFirst>>)>>}

InitRepeat ==
    /\ faculty \in RepeatFacultyLists
    /\ classrooms \in RepeatClassroomLists
    /\ courses \in RepairCourseLists
    /\ time_periods = DefaultPeriods
    /\ timetable = <<>>
    /\ status = "NONE"
    /\ call = NoCall

\* The second call: the list the first call returned, and its arguments.
RepairAgain ==
    /\ call.op = "handle_last_minute_changes"
    /\ "first" \notin DOMAIN call
    /\ \E out \in handle_last_minute_changes(timetable, call.unavailable_faculty,
                                              call.unavailable_classrooms,
                                              call.additional_courses,
                                              faculty, classrooms, time_periods) :
            /\ timetable' = out.result
            /\ faculty' = out.faculty
            /\ classrooms' = out.classrooms
            /\ status' = out.status
            /\ call' = [op |-> "handle_last_minute_changes",
                        timetable |-> timetable,
                        unavailable_faculty |-> call.unavailable_faculty,
                        unavailable_classrooms |-> call.unavailable_classrooms,
                        additional_courses |-> call.additional_courses,
                        faculty |-> faculty,
                        classrooms |-> classrooms,
                        kept |-> out.kept,
                        additional |-> out.additional,
                        fallback |-> out.fallback,
                        first |-> call.timetable]
    /\ UNCHANGED <<courses, time_periods>>

NextRepeat ==
    \/ Generate
    \/ Repair
    \/ RepairAgain

RepeatSpec == InitRepeat /\ [][NextRepeat]_vars

(***************************************************************************)
(* generate_timetable: the objective.  options holds the three toggles of  *)
(* the call.  The value of a valuation x is what Maximize sees once every  *)
(* diff variable sits at its lower bound.                                  *)
(***************************************************************************)
Toggles ==
    [respect_faculty_preferences : BOOLEAN,
     prioritize_department_grouping : BOOLEAN,
     distribute_courses_evenly : BOOLEAN]

\* 1. The variables at 1 whose slot a preferred slot of the faculty overlaps.
faculty_preferences_terms(x, fs) ==
    Cardinality({b \in x :
        \E i \in DOMAIN ById(fs, b.faculty).preferred_slots :
            overlaps(ById(fs, b.faculty).preferred_slots[i], b.time_slot)})

RECURSIVE SumOver(_, _)
\* The sum of f[e] over the elements e of the finite set S.
SumOver(S, f) ==
    IF S = {} THEN 0
    ELSE LET e == CHOOSE y \in S : TRUE
         IN  f[e] + SumOver(S \ {e}, f)

\* 2. For each department with two or more entries in the course list, each
\* day and each of its entries: the variables at 1 of that course on that day.
department_grouping_terms(x, cs) ==
    LET grouped == {i \in DOMAIN cs :
                        Cardinality({j \in DOMAIN cs :
                            cs[j].department = cs[i].department}) > 1}
        terms == grouped \X (DOMAIN days)
    IN  SumOver(terms,
            [t \in terms |->
                Cardinality({b \in x : /\ b.course.id = cs[t[1]].id
                                       /\ b.time_slot.day = days[t[2]]})])

\* The upper bound of a diff variable.
DiffMax == 100

target_per_day_int(cs) ==
    SumOver(DOMAIN cs, [i \in DOMAIN cs |-> Cardinality(cs[i].faculty_requirements)])
        \div Len(days)

\* The days that get a diff variable: those with a variable at all.
DaysWithVars(keys) == {d \in DOMAIN days : \E b \in keys : b.time_slot.day = days[d]}

\* The least value the two lower bounds leave to the diff variable of day d.
DiffOf(x, cs, d) ==
    LET count == Cardinality({b \in x : b.time_slot.day = days[d]})
        target == target_per_day_int(cs)
    IN  IF count >= target THEN count - target ELSE target - count

\* 3. The sum of the diff variables.
distribution_terms(x, keys, cs) ==
    SumOver(DaysWithVars(keys), [d \in DaysWithVars(keys) |-> DiffOf(x, cs, d)])

\* The valuations the model with the toggles accepts: those of the hard
\* constraints for which every diff variable has a value in 0..DiffMax.
SolutionsWith(options, cs, fs, rs, periods) ==
    LET keys == Range(Bindings(cs, fs, rs, periods))
    IN  {x \in Solutions(cs, fs, rs, periods) :
            options.distribute_courses_evenly
                => \A d \in DaysWithVars(keys) : DiffOf(x, cs, d) <= DiffMax}

\* sum(objective_terms), 0 when there is no term.
ObjectiveValue(x, options, keys, cs, fs) ==
    (IF options.respect_faculty_preferences
     THEN faculty_preferences_terms(x, fs) ELSE 0)
    + (IF options.prioritize_department_grouping
       THEN department_grouping_terms(x, cs) ELSE 0)
    - (IF options.distribute_courses_evenly
       THEN distribution_terms(x, keys, cs) ELSE 0)

RECURSIVE Greatest(_)
\* The greatest element of a nonempty finite set of integers.
Greatest(S) ==
    LET e == CHOOSE y \in S : TRUE
    IN  IF S = {e} THEN e
        ELSE LET g == Greatest(S \ {e}) IN IF e > g THEN e ELSE g

\* The accepted valuations of greatest objective value.
OptimalSolutions(options, cs, fs, rs, periods) ==
    LET sols == SolutionsWith(options, cs, fs, rs, periods)
        keys == Range(Bindings(cs, fs, rs, periods))
        value == [x \in sols |-> ObjectiveValue(x, options, keys, cs, fs)]
    IN  IF sols = {} THEN {}
        ELSE LET best == Greatest({value[x] : x \in sols})
             IN  {x \in sols : value[x] = best}

\* The outcomes of solving and extracting: OPTIMAL with a valuation of
\* greatest value, FEASIBLE with any accepted valuation, INFEASIBLE when
\* there is none, UNKNOWN when the time ran out.
SolveAndExtract(options, cs, fs, rs, periods) ==
    LET sols == SolutionsWith(options, cs, fs, rs, periods)
        bindings == Bindings(cs, fs, rs, periods)
    IN  {[status |-> "OPTIMAL", result |-> Extract(x, bindings)] :
            x \in OptimalSolutions(options, cs, fs, rs, periods)}
        \cup {[status |-> "FEASIBLE", result |-> Extract(x, bindings)] : x \in sols}
        \cup {[status |-> "UNKNOWN", result |-> <<>>]}
        \cup (IF sols = {}
              THEN {[status |-> "INFEASIBLE", result |-> <<>>]}
              ELSE {})

\* Weakened variant of generate_timetable_with: the per-day target divides
\* by the number of courses.
generate_timetable_with_PerCourse(options, cs, fs, rs, periods) ==
    IF options.distribute_courses_evenly /\ Len(cs) = 0
    THEN {[status |-> "ZeroDivisionError", result |-> <<>>]}
    ELSE SolveAndExtract(options, cs, fs, rs, periods)

\* The outcomes of a call with the toggles.  The per-day target is the one
\* division of the method: it raises when the day list is empty, and
\* nothing else on the way to the solver can raise.
generate_timetable_with(options, cs, fs, rs, periods) ==
    IF options.distribute_courses_evenly /\ Len(days) = 0
    THEN {[status |-> "ZeroDivisionError", result |-> <<>>]}
    ELSE SolveAndExtract(options, cs, fs, rs, periods)

(***************************************************************************)
(* The scheduler explored with the toggles: one faculty whose cap covers   *)
(* every hour demanded, one lecture room, and course lists and period      *)
(* lists that may be malformed (hours_per_week below 0, a period that ends *)
(* at or before its start): no constructor and no setter checks them.      *)
(***************************************************************************)
ObjectiveFacultyLists ==
    {<<[Faculty("F1", MaxTotalHours, {"AI", "ML"}, <<>>)
            EXCEPT !.preferred_slots = preferred]>> :
        preferred \in {<<>>, <<MondayFirst>>}}

ObjectiveClassroomLists == {<<Classroom("R1", 30, "Lecture", {}, <<>>)>>}

ObjectiveCourseIds == <<"CS201", "CS202", "CS203", "CS204", "CS205">>

\* A faculty_requirements list long enough for the per-day target of the
\* even distribution to pass the upper bound of a diff variable.
ManyTags == {"AI"} \cup {"T" \o ToString(i) : i \in 1..(Len(days) * (DiffMax + 1))}

\* Two plain lectures of one department, a lecture of another department
\* that requires two expertise tags, a lab (there is no lab room), and a
\* lecture with the long requirements list.
ObjectiveCourseChoices ==
    UNION {{Course("CS201", "D1", h, "Lecture", {}, 10, {}),
            Course("CS202", "D1", h, "Lecture", {}, 10, {}),
            Course("CS203", "D2", h, "Lecture", {}, 10, {"AI", "ML"}),
            Course("CS204", "D2", h, "Lab", {}, 10, {}),
            Course("CS205", "D3", h, "Lecture", {}, 10, ManyTags)}
           : h \in {-1} \cup 1..MaxTotalHours}

RECURSIVE HoursDemanded(_)
\* The hours a course list asks for, a negative hours_per_week left out.
HoursDemanded(cs) ==
    IF cs = <<>> THEN 0
    ELSE (IF Head(cs).hours_per_week > 0 THEN Head(cs).hours_per_week ELSE 0)
            + HoursDemanded(Tail(cs))

ObjectiveCourseLists ==
    {cs \in UNION {[1..n -> ObjectiveCourseChoices] : n \in 0..MaxTotalHours} :
        /\ \A i, j \in DOMAIN cs : i < j =>
                \E k \in DOMAIN ObjectiveCourseIds :
                    /\ cs[i].id = ObjectiveCourseIds[k]
                    /\ \E l \in (k + 1)..Len(ObjectiveCourseIds) :
                            cs[j].id = ObjectiveCourseIds[l]
        /\ HoursDemanded(cs) <= MaxTotalHours}

\* Period lists with a period that ends before it starts, with a period of
\* no length next to a regular one, and with one period listed twice.
InvertedPeriods == <<<<Hour(FirstHour + 1), Hour(FirstHour)>>>>
EmptyPeriods ==
    <<<<Hour(FirstHour), Hour(FirstHour)>>, <<Hour(FirstHour), Hour(FirstHour + 1)>>>>
DuplicatePeriods ==
    <<<<Hour(FirstHour), Hour(FirstHour + 1)>>, <<Hour(FirstHour), Hour(FirstHour + 1)>>>>

MalformedPeriodChoices == {InvertedPeriods, EmptyPeriods, DuplicatePeriods}

InitObjective ==
    /\ faculty \in ObjectiveFacultyLists
    /\ classrooms \in ObjectiveClassroomLists
    /\ courses \in ObjectiveCourseLists
    /\ time_periods = DefaultPeriods
    /\ timetable = <<>>
    /\ status = "NONE"
    /\ call = NoCall

SetTimePeriodsMalformed ==
    /\ call.op = "__init__"
    /\ \E periods \in MalformedPeriodChoices :
        /\ call' = [op |-> "set_time_periods"]
        /\ time_periods' = periods
    /\ UNCHANGED <<faculty, classrooms, courses, timetable, status>>

GenerateWith ==
    /\ call.op \in {"__init__", "set_time_periods"}
    /\ \E options \in Toggles :
        /\ \E out \in generate_timetable_with(options, courses, faculty,
                                              classrooms, time_periods) :
            /\ timetable' = out.result
            /\ status' = out.status
        /\ call' = [op |-> "generate_timetable", options |-> options,
                    time_slots |-> time_slots(time_periods)]
    /\ UNCHANGED <<faculty, classrooms, courses, time_periods>>

NextObjective ==
    \/ SetTimePeriodsMalformed
    \/ GenerateWith

ObjectiveSpec == InitObjective /\ [][NextObjective]_vars

(***************************************************************************)
(* models.py: to_dict and from_dict.  A dict is a record of its keys, a    *)
(* list of slots a sequence; an Assignment of models.py holds its Faculty  *)
(* and Classroom objects, so here its faculty and classroom fields are the *)
(* entity records.                                                         *)
(***************************************************************************)
Faculty_to_dict(self) ==
    [id |-> self.id, weekly_hours |-> self.weekly_hours,
     expertise |-> self.expertise,
     unavailable_slots |->
        [i \in DOMAIN self.unavailable_slots |->
            TimeSlot_to_dict(self.unavailable_slots[i])],
     preferred_slots |->
        [i \in DOMAIN self.preferred_slots |->
            TimeSlot_to_dict(self.preferred_slots[i])]]

Faculty_from_dict(data) ==
    [id |-> data.id, weekly_hours |-> data.weekly_hours,
     expertise |-> data.expertise,
     unavailable_slots |->
        [i \in DOMAIN data.unavailable_slots |->
            TimeSlot_from_dict(data.unavailable_slots[i])],
     preferred_slots |->
        [i \in DOMAIN data.preferred_slots |->
            TimeSlot_from_dict(data.preferred_slots[i])]]

Classroom_to_dict(self) ==
    [id |-> self.id, capacity |-> self.capacity, room_type |-> self.room_type,
     facilities |-> self.facilities,
     unavailable_slots |->
        [i \in DOMAIN self.unavailable_slots |->
            TimeSlot_to_dict(self.unavailable_slots[i])]]

Classroom_from_dict(data) ==
    [id |-> data.id, capacity |-> data.capacity, room_type |-> data.room_type,
     facilities |-> data.facilities,
     unavailable_slots |->
        [i \in DOMAIN data.unavailable_slots |->
            TimeSlot_from_dict(data.unavailable_slots[i])]]

Course_to_dict(self) ==
    [id |-> self.id, code |-> self.code, department |-> self.department,
     hours_per_week |-> self.hours_per_week,
     required_room_type |-> self.required_room_type,
     required_facilities |-> self.required_facilities,
     min_capacity |-> self.min_capacity,
     faculty_requirements |-> self.faculty_requirements]

Course_from_dict(data) ==
    [Course(data.id, data.department, data.hours_per_week,
            data.required_room_type, data.required_facilities,
            data.min_capacity, data.faculty_requirements)
        EXCEPT !.code = data.code]

Assignment_to_dict(self) ==
    [course |-> Course_to_dict(self.course),
     faculty |-> Faculty_to_dict(self.faculty),
     classroom |-> Classroom_to_dict(self.classroom),
     time_slot |-> TimeSlot_to_dict(self.time_slot)]

\* A lookup dict is a function from ids to entities; d.get(id) or
\* X.from_dict(...) takes the entity of the dict when the id is a key.
Assignment_from_dict(data, course_dict, faculty_dict, classroom_dict) ==
    Assignment(
        IF data.course.id \in DOMAIN course_dict
        THEN course_dict[data.course.id] ELSE Course_from_dict(data.course),
        IF data.faculty.id \in DOMAIN faculty_dict
        THEN faculty_dict[data.faculty.id] ELSE Faculty_from_dict(data.faculty),
        IF data.classroom.id \in DOMAIN classroom_dict
        THEN classroom_dict[data.classroom.id]
        ELSE Classroom_from_dict(data.classroom),
        TimeSlot_from_dict(data.time_slot))

(***************************************************************************)
(* The data model explored on its own: the inputs are pairs of slots whose *)
(* times are half a minute apart, and assignments with lookup dicts.       *)
(***************************************************************************)
SlotTimes == {Hour(FirstHour) + 30 * k : k \in 0..SubMinuteSteps}

SlotChoices ==
    {TimeSlot(days[d], start_time, end_time) :
        d \in DOMAIN days, start_time \in SlotTimes, end_time \in SlotTimes}

TheCourse == Course("CS101", "D1", 1, "Lecture", {}, 10, {})
TheFaculty == Faculty("F1", MaxWeeklyHours, {"AI"}, <<MondayFirst>>)
TheClassroom == Classroom("R1", 30, "Lecture", {}, <<>>)

\* A dict without the id, with the entity itself, and (for the faculty) with
\* another entity of the same id.
EmptyDict == <<>>
DictOf(entity) == [id \in {entity.id} |-> entity]

CourseDicts == {EmptyDict, DictOf(TheCourse)}
FacultyDicts ==
    {EmptyDict, DictOf(TheFaculty),
     DictOf([TheFaculty EXCEPT !.weekly_hours = @ + 1])}
ClassroomDicts == {EmptyDict, DictOf(TheClassroom)}

InitModels ==
    /\ faculty = <<>>
    /\ classrooms = <<>>
    /\ courses = <<>>
    /\ time_periods = DefaultPeriods
    /\ timetable = <<>>
    /\ status = "NONE"
    /\ call \in
        {[op |-> "TimeSlot", self |-> a, other |-> b] :
            a \in SlotChoices, b \in SlotChoices}
        \cup
        {[op |-> "Assignment",
          assignment |-> Assignment(TheCourse, TheFaculty, TheClassroom, ts),
          course_dict |-> cd, faculty_dict |-> fd, classroom_dict |-> rd] :
            ts \in SlotChoices, cd \in CourseDicts, fd \in FacultyDicts,
            rd \in ClassroomDicts}

\* self == other, hash(self) and hash(other), as a dict or set lookup
\* evaluates them.
EqAndHash ==
    /\ call.op = "TimeSlot"
    /\ call' = [op |-> "__eq__", self |-> call.self, other |-> call.other,
                result |-> TimeSlot_eq(call.self, call.other),
                hash_self |-> TimeSlot_hash(call.self),
                hash_other |-> TimeSlot_hash(call.other)]
    /\ UNCHANGED <<faculty, classrooms, courses, time_periods, timetable, status>>

\* self.overlaps(other) and other.overlaps(self).
Overlaps ==
    /\ call.op = "TimeSlot"
    /\ call' = [op |-> "overlaps", self |-> call.self, other |-> call.other,
                result |-> overlaps(call.self, call.other),
                reverse |-> overlaps(call.other, call.self)]
    /\ UNCHANGED <<faculty, classrooms, courses, time_periods, timetable, status>>

\* Assignment.from_dict(a.to_dict(), course_dict, faculty_dict, classroom_dict)
RoundTrip ==
    /\ call.op = "Assignment"
    /\ call' = [op |-> "from_dict", assignment |-> call.assignment,
                course_dict |-> call.course_dict,
                faculty_dict |-> call.faculty_dict,
                classroom_dict |-> call.classroom_dict,
                result |-> Assignment_from_dict(
                                Assignment_to_dict(call.assignment),
                                call.course_dict, call.faculty_dict,
                                call.classroom_dict)]
    /\ UNCHANGED <<faculty, classrooms, courses, time_periods, timetable, status>>

NextModels ==
    \/ EqAndHash
    \/ Overlaps
    \/ RoundTrip

ModelsSpec == InitModels /\ [][NextModels]_vars

(***************************************************************************)
(* The data manager (data_manager.py): save_timetable stores the           *)
(* assignments of a timetable as dicts under a name, and                   *)
(* export_timetable_to_csv writes one row per stored assignment.  Here     *)
(* courses is the manager's course registry (self.courses, in insertion    *)
(* order) and timetable is what self.timetables holds under the one name   *)
(* used: None, or Some list of assignment dicts.  The columns built from   *)
(* the entities' name and building fields are left out of a row.           *)
(***************************************************************************)
get_course(registry, course_id) ==
    IF HasId(registry, course_id) THEN <<ById(registry, course_id)>> ELSE <<>>

save_timetable(assignments) ==
    [i \in DOMAIN assignments |-> Assignment_to_dict(assignments[i])]

\* One row of the exported frame.
ExportRow(registry, assignment_dict) ==
    LET found == get_course(registry, assignment_dict.course.id)
        course == IF found # <<>> THEN found[1]
                  ELSE Course_from_dict(assignment_dict.course)
        time_slot == TimeSlot_from_dict(assignment_dict.time_slot)
    IN  [Day |-> time_slot.day,
         StartTime |-> strftime(time_slot.start_time),
         EndTime |-> strftime(time_slot.end_time),
         CourseCode |-> course.code]

\* The rows of the frame, in the order to_csv writes them.
export_timetable_to_csv(registry, saved) ==
    [i \in DOMAIN saved |-> ExportRow(registry, saved[i])]

ExportCourses ==
    <<Course("CS101", "D1", 1, "Lecture", {}, 10, {}),
      Course("CS102", "D1", 1, "Lecture", {}, 10, {})>>

ExportAssignments ==
    {Assignment(ExportCourses[c], TheFaculty, TheClassroom, ts) :
        c \in DOMAIN ExportCourses, ts \in Range(time_slots(DefaultPeriods))}

InitExport ==
    /\ faculty = <<TheFaculty>>
    /\ classrooms = <<TheClassroom>>
    /\ courses \in {<<>>, ExportCourses}
    /\ time_periods = DefaultPeriods
    /\ timetable = None
    /\ status = "NONE"
    /\ call = NoCall

\* The name is saved under once.
SaveTimetable ==
    \E n \in 0..MaxSaved : \E assignments \in [1..n -> ExportAssignments] :
        /\ timetable = None
        /\ timetable' = Some(save_timetable(assignments))
        /\ call' = [op |-> "save_timetable", assignments |-> assignments]
        /\ UNCHANGED <<faculty, classrooms, courses, time_periods, status>>

ExportTimetableToCsv ==
    /\ call' = IF timetable = None
               THEN [op |-> "export_timetable_to_csv", result |-> FALSE,
                     rows |-> <<>>]
               ELSE [op |-> "export_timetable_to_csv", result |-> TRUE,
                     rows |-> export_timetable_to_csv(courses, timetable[1])]
    /\ UNCHANGED <<faculty, classrooms, courses, time_periods, timetable, status>>

NextExport ==
    \/ SaveTimetable
    \/ ExportTimetableToCsv

ExportSpec == InitExport /\ [][NextExport]_vars

(***************************************************************************)
(* Properties of the list generate_timetable returns.                      *)
(***************************************************************************)
Generated == call.op = "generate_timetable"

\* The assignments of a list that mention a course, a faculty, a classroom.
CountCourse(tt, c_id) == Cardinality({i \in DOMAIN tt : tt[i].course.id = c_id})
CountFaculty(tt, f_id) == Cardinality({i \in DOMAIN tt : tt[i].faculty = f_id})

\* The interval predicate of the data model: same day, and each slot starts
\* before the other ends.
SlotsOverlap(s, t) ==
    s.day = t.day /\ s.start_time < t.end_time /\ t.start_time < s.end_time

NoFacultyConflict(tt) ==
    \A i, j \in DOMAIN tt :
        i # j /\ tt[i].faculty = tt[j].faculty
            => ~ SlotsOverlap(tt[i].time_slot, tt[j].time_slot)

NoClassroomConflict(tt) ==
    \A i, j \in DOMAIN tt :
        i # j /\ tt[i].classroom = tt[j].classroom
            => ~ SlotsOverlap(tt[i].time_slot, tt[j].time_slot)

\* The admissible candidate bindings of a course of the scheduler.
CandidatesOf(course) ==
    {b \in Range(Bindings(courses, faculty, classrooms, time_periods)) :
        b.course.id = course.id}

\* C1 (as claimed): every nonempty list generate_timetable returns holds, for
\* each course of the scheduler, exactly hours_per_week assignments of it.
C1_DemandEveryCourse ==
    Generated /\ timetable # <<>> =>
        \A i \in DOMAIN courses :
            CountCourse(timetable, courses[i].id) = courses[i].hours_per_week

\* C2: no two distinct assignments of a list generate_timetable returns have
\* the same faculty and overlapping slots, on the default grid and on a grid
\* whose periods overlap each other.
C2_FacultyExclusive ==
    Generated => NoFacultyConflict(timetable)

\* C2 witness: on the grid of overlapping periods, a returned list gives one
\* faculty two assignments.
C2_Witness ==
    /\ Generated
    /\ time_periods = OverlappingPeriods
    /\ \E i, j \in DOMAIN timetable :
        i # j /\ timetable[i].faculty = timetable[j].faculty

\* C3: no two distinct assignments of a list generate_timetable returns have
\* the same classroom and overlapping slots.
C3_ClassroomExclusive ==
    Generated => NoClassroomConflict(timetable)

\* C3 witness: on the grid of overlapping periods, a returned list puts two
\* assignments of different faculty in one classroom.
C3_Witness ==
    /\ Generated
    /\ time_periods = OverlappingPeriods
    /\ \E i, j \in DOMAIN timetable :
        /\ i # j
        /\ timetable[i].classroom = timetable[j].classroom
        /\ timetable[i].faculty # timetable[j].faculty

\* C4: in a list generate_timetable returns, each faculty is mentioned by at
\* most weekly_hours assignments (none when weekly_hours is 0).
C4_WeeklyCap ==
    Generated =>
        \A k \in DOMAIN faculty :
            CountFaculty(timetable, faculty[k].id) <= faculty[k].weekly_hours

\* C4 witness: a returned list is nonempty although one faculty has
\* weekly_hours 0, and the other faculty is at its cap.
C4_Witness ==
    /\ Generated
    /\ timetable # <<>>
    /\ \E k \in DOMAIN faculty : faculty[k].weekly_hours = 0
    /\ \E k \in DOMAIN faculty :
        /\ faculty[k].weekly_hours > 0
        /\ CountFaculty(timetable, faculty[k].id) = faculty[k].weekly_hours

\* C5: in a list generate_timetable returns, no unavailable slot of an
\* assignment's faculty or classroom overlaps the assignment's slot.
C5_Availability ==
    Generated =>
        \A i \in DOMAIN timetable :
            LET a == timetable[i]
                f == ById(faculty, a.faculty)
                r == ById(classrooms, a.classroom)
            IN  /\ \A u \in Range(f.unavailable_slots) :
                        ~ SlotsOverlap(u, a.time_slot)
                /\ \A u \in Range(r.unavailable_slots) :
                        ~ SlotsOverlap(u, a.time_slot)

\* C5 witness: a faculty unavailable on the whole of Monday (08:00-18:00)
\* is given assignments, and the classroom blocked on Monday's first period
\* is used on Monday.
C5_Witness ==
    /\ Generated
    /\ \E i \in DOMAIN timetable :
        ById(faculty, timetable[i].faculty).unavailable_slots = <<WholeMonday>>
    /\ \E i \in DOMAIN timetable :
        /\ ById(classrooms, timetable[i].classroom).unavailable_slots
                = <<MondayFirst>>
        /\ timetable[i].time_slot.day = "Monday"

\* C6: in a list generate_timetable returns, every assignment's classroom has
\* the capacity, the room type and all the facilities its course requires.
C6_RoomFit ==
    Generated =>
        \A i \in DOMAIN timetable :
            LET c == timetable[i].course
                r == ById(classrooms, timetable[i].classroom)
            IN  /\ r.capacity >= c.min_capacity
                /\ r.room_type = c.required_room_type
                /\ c.required_facilities \subseteq r.facilities

\* C6 witness: a course that requires a projector is scheduled while one
\* lecture room has no projector.
C6_Witness ==
    /\ Generated
    /\ \E i \in DOMAIN timetable :
        /\ timetable[i].course.required_facilities = {"Projector"}
        /\ \E k \in DOMAIN classrooms :
            /\ classrooms[k].room_type = "Lecture"
            /\ "Projector" \notin classrooms[k].facilities

\* C7 (as claimed): in a list generate_timetable returns, the faculty of an
\* assignment has every expertise tag its course requires.
C7_ExpertiseAllTags ==
    Generated =>
        \A i \in DOMAIN timetable :
            timetable[i].course.faculty_requirements
                \subseteq ById(faculty, timetable[i].faculty).expertise

\* C8: in a list generate_timetable returns, the faculty of an assignment
\* whose course requires expertise has at least one of the required tags.
C8_ExpertiseAnyTag ==
    Generated =>
        \A i \in DOMAIN timetable :
            LET reqs == timetable[i].course.faculty_requirements
                exp == ById(faculty, timetable[i].faculty).expertise
            IN  reqs # {} => reqs \cap exp # {}

\* C8 witness: a course that requires expertise is given to a faculty that
\* has one of its tags, while another faculty has none of them, and a
\* course that requires none is given to a faculty without expertise.
C8_Witness ==
    /\ Generated
    /\ \E i \in DOMAIN timetable :
        LET reqs == timetable[i].course.faculty_requirements
        IN  /\ reqs # {}
            /\ reqs \cap ById(faculty, timetable[i].faculty).expertise # {}
            /\ \E k \in DOMAIN faculty : reqs \cap faculty[k].expertise = {}
    /\ \E i \in DOMAIN timetable :
        /\ timetable[i].course.faculty_requirements = {}
        /\ ById(faculty, timetable[i].faculty).expertise = {}

\* C9 (as claimed): when a course of the scheduler has fewer admissible
\* candidate bindings than its hours_per_week, generate_timetable returns
\* the empty list.
C9_InfeasibleDemandFails ==
    Generated /\ (\E i \in DOMAIN courses :
                    Cardinality(CandidatesOf(courses[i]))
                        < courses[i].hours_per_week)
        => timetable = <<>>

(***************************************************************************)
(* Properties of the list handle_last_minute_changes returns.              *)
(***************************************************************************)
Repaired == call.op = "handle_last_minute_changes"

\* C10 (as claimed): when the prior solution has no faculty or classroom
\* conflict, the list handle_last_minute_changes returns has none either.
C10_RepairNoDoubleBooking ==
    Repaired /\ NoFacultyConflict(call.timetable)
             /\ NoClassroomConflict(call.timetable)
        => NoFacultyConflict(timetable) /\ NoClassroomConflict(timetable)

\* The arguments of the last repair call, None read as empty.
given_unavailable_faculty == OrEmpty(call.unavailable_faculty, {})
given_unavailable_classrooms == OrEmpty(call.unavailable_classrooms, {})
given_additional_courses == OrEmpty(call.additional_courses, <<>>)

\* C11 (as claimed): when every faculty is within its weekly cap in the prior
\* solution, it is within it in the list handle_last_minute_changes returns.
C11_RepairWeeklyCap ==
    Repaired /\ (\A k \in DOMAIN call.faculty :
                    CountFaculty(call.timetable, call.faculty[k].id)
                        <= call.faculty[k].weekly_hours)
        => \A k \in DOMAIN faculty :
                CountFaculty(timetable, faculty[k].id) <= faculty[k].weekly_hours

\* The prior solution gives every course of the scheduler its hours.
PriorMeetsDemand ==
    \A i \in DOMAIN courses :
        CountCourse(call.timetable, courses[i].id) = courses[i].hours_per_week

\* C12 (as claimed): when the prior solution meets the demand, the list
\* handle_last_minute_changes returns mentions no course, of the scheduler or
\* additional, more than hours_per_week times.
C12_RepairNoOverSchedule ==
    Repaired /\ PriorMeetsDemand
        => \A c \in Range(courses) \cup Range(given_additional_courses) :
                CountCourse(timetable, c.id) <= c.hours_per_week

\* C13 (as claimed): after handle_last_minute_changes the unavailable_slots
\* of every faculty and classroom of the scheduler are what they were before
\* the call, and the candidate bindings of generate_timetable are the same.
C13_RepairLeavesEntities ==
    Repaired =>
        /\ \A k \in DOMAIN faculty :
                faculty[k].unavailable_slots = call.faculty[k].unavailable_slots
        /\ \A k \in DOMAIN classrooms :
                classrooms[k].unavailable_slots
                    = call.classrooms[k].unavailable_slots
        /\ Bindings(courses, faculty, classrooms, time_periods)
                = Bindings(courses, call.faculty, call.classrooms, time_periods)

\* C14: when unavailable_faculty, unavailable_classrooms and
\* additional_courses are each empty or None, handle_last_minute_changes
\* returns the prior solution as it was and changes no faculty and no
\* classroom.
C14_RepairIdentity ==
    Repaired /\ given_unavailable_faculty = {}
             /\ given_unavailable_classrooms = {}
             /\ given_additional_courses = <<>>
        => /\ timetable = call.timetable
           /\ faculty = call.faculty
           /\ classrooms = call.classrooms

\* C14 witness: a repair of a nonempty solution whose first argument is None
\* and whose second is the empty list.
C14_Witness ==
    /\ Repaired
    /\ call.unavailable_faculty = None
    /\ call.unavailable_classrooms = Some({})
    /\ given_additional_courses = <<>>
    /\ call.timetable # <<>>
    /\ timetable = call.timetable

\* C15: the list handle_last_minute_changes returns has no assignment whose
\* faculty is in unavailable_faculty or whose classroom is in
\* unavailable_classrooms.
C15_RepairRemovesUnavailable ==
    Repaired =>
        \A i \in DOMAIN timetable :
            /\ timetable[i].faculty \notin given_unavailable_faculty
            /\ timetable[i].classroom \notin given_unavailable_classrooms

\* C15 witness: a repair with an unavailable faculty and an unavailable
\* classroom that displaces an assignment, keeps another and returns
\* assignments of the residual solve.
C15_Witness ==
    /\ Repaired
    /\ given_unavailable_faculty # {}
    /\ given_unavailable_classrooms # {}
    /\ Len(call.kept) < Len(call.timetable)
    /\ call.kept # <<>>
    /\ call.additional # <<>>

\* C15 witness for the fallback: a repair with an unavailable faculty whose
\* residual solve returned nothing and whose fallback placed a course.
C15_WitnessFallback ==
    /\ Repaired
    /\ given_unavailable_faculty # {}
    /\ call.additional = <<>>
    /\ call.fallback # <<>>

(***************************************************************************)
(* Properties of the calls with the toggles.                               *)
(***************************************************************************)
\* The assignments of a list on a day.
CountDay(tt, day) == Cardinality({i \in DOMAIN tt : tt[i].time_slot.day = day})

\* A period that ends at or before its start; a course that asks for less
\* than no hour.
MalformedPeriods(periods) == \E i \in DOMAIN periods : periods[i][1] >= periods[i][2]
NegativeHours(cs) == \E i \in DOMAIN cs : cs[i].hours_per_week < 0

\* C16 (as claimed): on well-formed input, a list returned as OPTIMAL by a
\* call with distribute_courses_evenly has at most ceil(H / |days|)
\* assignments on any day, H being the hours the courses demand.
C16_EvenDistribution ==
    /\ Generated
    /\ call.options.distribute_courses_evenly
    /\ status = "OPTIMAL"
    /\ ~ MalformedPeriods(time_periods)
    /\ ~ NegativeHours(courses)
    => \A d \in DOMAIN days :
            CountDay(timetable, days[d])
                <= (HoursDemanded(courses) + Len(days) - 1) \div Len(days)

\* C17 (as claimed, for the period list and the hours): when a period ends
\* at or before its start or a course has a negative hours_per_week,
\* generate_timetable returns the empty list, whatever the toggles.
C17_MalformedRejected ==
    Generated /\ (MalformedPeriods(time_periods) \/ NegativeHours(courses))
        => timetable = <<>>

(***************************************************************************)
(* Properties of the data model.                                           *)
(***************************************************************************)
\* Two times agree at minute precision (HH:MM).
SameMinute(t, u) == t \div 60 = u \div 60

\* C18 (as claimed): two TimeSlots are equal exactly when they have the same
\* day and their start times and their end times agree at minute precision,
\* and equal TimeSlots have equal hashes.
C18_EqualityToTheMinute ==
    call.op = "__eq__" =>
        /\ call.result <=> /\ call.self.day = call.other.day
                           /\ SameMinute(call.self.start_time, call.other.start_time)
                           /\ SameMinute(call.self.end_time, call.other.end_time)
        /\ call.result => call.hash_self = call.hash_other

\* C19: a.overlaps(b) = b.overlaps(a), and it is true exactly when the days
\* are the same and each slot starts before the other ends; so slots of
\* different days and back-to-back slots do not overlap, and a slot with
\* start < end overlaps itself.
C19_OverlapsSymmetric ==
    call.op = "overlaps" =>
        LET a == call.self
            b == call.other
        IN  /\ call.result = call.reverse
            /\ call.result = SlotsOverlap(a, b)
            /\ a.day # b.day => ~ call.result
            /\ a.end_time = b.start_time => ~ call.result
            /\ a = b /\ a.start_time < a.end_time => call.result

\* C19 witness: two slots of one day with start < end, the first ending
\* where the second starts, found not to overlap.
C19_Witness ==
    /\ call.op = "overlaps"
    /\ call.self.day = call.other.day
    /\ call.self.start_time < call.self.end_time
    /\ call.other.start_time < call.other.end_time
    /\ call.self.end_time = call.other.start_time
    /\ ~ call.result

\* C20 (as claimed): Assignment.from_dict(a.to_dict(), ...) is equal to a,
\* whatever the three lookup dicts hold for the ids of a.
C20_RoundTrip ==
    call.op = "from_dict" => call.result = call.assignment

(***************************************************************************)
(* Properties of the rows export_timetable_to_csv writes.                  *)
(***************************************************************************)
Exported == call.op = "export_timetable_to_csv" /\ call.result

WeekdayIndex(day) == CHOOSE d \in DOMAIN days : days[d] = day

\* The codes of ExportCourses are in lexicographic order.
CodeIndex(code) == CHOOSE c \in DOMAIN ExportCourses : ExportCourses[c].code = code

MinuteOfDay(hhmm) == hhmm[1] * 60 + hhmm[2]

\* Row a may stand before row b: by weekday index, then start time, then
\* course code.
RowOrdered(a, b) ==
    \/ WeekdayIndex(a.Day) < WeekdayIndex(b.Day)
    \/ /\ a.Day = b.Day
       /\ MinuteOfDay(a.StartTime) < MinuteOfDay(b.StartTime)
    \/ /\ a.Day = b.Day
       /\ a.StartTime = b.StartTime
       /\ CodeIndex(a.CourseCode) <= CodeIndex(b.CourseCode)

\* C21 (as claimed): the exported rows are ordered by weekday index, then
\* start time, ties broken by course code, whatever order the assignments
\* were saved in.
C21_ExportOrdered ==
    Exported =>
        \A i, j \in DOMAIN call.rows : i < j => RowOrdered(call.rows[i], call.rows[j])

(***************************************************************************)
(* Properties of generate_timetable with its toggles.                      *)
(***************************************************************************)
\* The call ran to its return statement.
Returned == status \in {"OPTIMAL", "FEASIBLE", "INFEASIBLE", "UNKNOWN"}

\* C22: generate_timetable on an empty course list returns the empty list
\* without raising, whatever the faculty, the classrooms and the toggles.
C22_ZeroCourses ==
    Generated /\ courses = <<>> => Returned /\ timetable = <<>>

\* C22 witness: a call with no course, a faculty, a classroom and the even
\* distribution on, that the solver answered.
C22_Witness ==
    /\ Generated
    /\ courses = <<>>
    /\ faculty # <<>>
    /\ classrooms # <<>>
    /\ call.options.distribute_courses_evenly
    /\ call.options.prioritize_department_grouping
    /\ status = "OPTIMAL"
    /\ timetable = <<>>

(***************************************************************************)
(* Properties of the fallback of handle_last_minute_changes.               *)
(***************************************************************************)
\* The affected courses of the last repair call.
given_affected_courses ==
    AffectedCourses(call.timetable, given_unavailable_faculty,
                    given_unavailable_classrooms, given_additional_courses)

\* The courses the last repair call handed to its fallback.
HandedToFallback ==
    IF Repaired /\ Len(call.additional) < Len(given_affected_courses)
    THEN {c \in Range(given_affected_courses) :
            \A i \in DOMAIN call.additional : call.additional[i].course.id # c.id}
    ELSE {}

\* A slot of the grid, an available faculty and an available classroom that
\* suit the course and are free of every commitment of the list returned:
\* neither is unavailable in the slot, no assignment of the list overlaps the
\* slot with the same faculty or classroom, and the faculty has an hour left.
FreeQuadruple(course, ts, f, r) ==
    /\ f.id \notin given_unavailable_faculty
    /\ r.id \notin given_unavailable_classrooms
    /\ course.faculty_requirements \subseteq f.expertise
    /\ RoomFits(course, r)
    /\ ~ Unavailable(f, ts)
    /\ ~ Unavailable(r, ts)
    /\ \A i \in DOMAIN timetable :
            SlotsOverlap(timetable[i].time_slot, ts)
                => timetable[i].faculty # f.id /\ timetable[i].classroom # r.id
    /\ CountFaculty(timetable, f.id) < f.weekly_hours

\* C23 (as claimed): the fallback never gives up on a course while a later
\* day or period still offers a free quadruple: a course handed to it and
\* left out of the list has no quadruple that is free even after the call.
C23_FallbackComplete ==
    \A course \in HandedToFallback :
        (\E ts \in Range(time_slots(time_periods)), f \in Range(faculty),
            r \in Range(classrooms) : FreeQuadruple(course, ts, f, r))
            => \E i \in DOMAIN call.fallback : call.fallback[i].course.id = course.id

\* The assignments of the prior list whose faculty and classroom are both
\* still available, in the order of the prior list.
PriorStillAvailable ==
    SelectSeq(call.timetable, LAMBDA a :
        /\ a.faculty \notin given_unavailable_faculty
        /\ a.classroom \notin given_unavailable_classrooms)

\* C24: every prior assignment whose faculty and classroom are not named
\* unavailable is in the list returned with the same course, faculty,
\* classroom and slot, and the list is exactly these, then what the residual
\* solve produced, then what the fallback produced, the last two for affected
\* courses only.
C24_RepairKeepsPrior ==
    Repaired =>
        /\ \A i \in DOMAIN PriorStillAvailable :
                i \in DOMAIN timetable /\ timetable[i] = PriorStillAvailable[i]
        /\ timetable = PriorStillAvailable \o call.additional \o call.fallback
        /\ \A a \in Range(call.additional) \cup Range(call.fallback) :
                a.course \in Range(given_affected_courses)

\* C24 witness: a repair that keeps one assignment, displaces another, and
\* returns the kept one followed by what the residual solve produced.
C24_Witness ==
    /\ Repaired
    /\ PriorStillAvailable # <<>>
    /\ Len(PriorStillAvailable) < Len(call.timetable)
    /\ call.additional # <<>>
    /\ timetable = PriorStillAvailable \o call.additional

\* The assignments the last repair call added.
AddedByRepair == Range(call.additional) \cup Range(call.fallback)

\* No slot of the entity's unavailable_slots overlaps the slot.
FreeIn(entity, time_slot) ==
    \A i \in DOMAIN entity.unavailable_slots :
        ~ SlotsOverlap(entity.unavailable_slots[i], time_slot)

\* C25: every assignment handle_last_minute_changes adds, by the residual
\* solve or by the fallback, is eligible against the faculty and classrooms
\* as they were before the call: the room has the capacity, the type and
\* the facilities of the course, the faculty shares a tag with a nonempty
\* faculty_requirements, and no unavailable slot of either overlaps the slot.
C25_AddedAdmissible ==
    Repaired =>
        \A a \in AddedByRepair :
            LET f == ById(call.faculty, a.faculty)
                r == ById(call.classrooms, a.classroom)
            IN  /\ r.capacity >= a.course.min_capacity
                /\ r.room_type = a.course.required_room_type
                /\ a.course.required_facilities \subseteq r.facilities
                /\ a.course.faculty_requirements # {}
                        => a.course.faculty_requirements \cap f.expertise # {}
                /\ FreeIn(f, a.time_slot)
                /\ FreeIn(r, a.time_slot)

\* C25 witness: a second repair call whose residual solve gives a course
\* with requirements to a faculty that had unavailable slots before the call.
C25_Witness ==
    /\ Repaired
    /\ "first" \in DOMAIN call
    /\ \E i \in DOMAIN call.additional :
            LET a == call.additional[i]
            IN  /\ a.course.faculty_requirements # {}
                /\ Len(ById(call.faculty, a.faculty).unavailable_slots) > 1

(***************************************************************************)
(* Properties of the department-grouping term.                             *)
(***************************************************************************)
\* The total hours of the courses in departments with two or more courses.
GroupedHours(cs) ==
    SumOver({i \in DOMAIN cs :
                \E j \in DOMAIN cs : j # i /\ cs[j].department = cs[i].department},
            [i \in DOMAIN cs |-> cs[i].hours_per_week])

\* C26 (as claimed): on well-formed input, the department-grouping term of
\* a call has the same value for every assignment set the hard constraints
\* accept, namely the total hours of the courses in departments with two or
\* more courses, and the valuations of greatest objective value are the same
\* with the toggle on as with it off.
C26_GroupingConstant ==
    /\ Generated
    /\ call.options.prioritize_department_grouping
    /\ ~ MalformedPeriods(time_periods)
    /\ ~ NegativeHours(courses)
    => /\ \A x \in Solutions(courses, faculty, classrooms, time_periods) :
            department_grouping_terms(x, courses) = GroupedHours(courses)
       /\ OptimalSolutions(call.options, courses, faculty, classrooms, time_periods)
            = OptimalSolutions(
                [call.options EXCEPT !.prioritize_department_grouping = FALSE],
                courses, faculty, classrooms, time_periods)

(***************************************************************************)
(* Properties of the slot grid.                                            *)
(***************************************************************************)
\* The grid of the last generate_timetable call is the product of the day
\* list and the period list, day by day.
DayMajorProduct ==
    /\ Len(call.time_slots) = Len(days) * Len(time_periods)
    /\ \A d \in DOMAIN days, p \in DOMAIN time_periods :
            call.time_slots[(d - 1) * Len(time_periods) + p]
                = TimeSlot(days[d], time_periods[p][1], time_periods[p][2])

\* C27 (as claimed): the slots generate_timetable builds are the product of
\* the day list and the current period list in day-major order,
\* |days| x |periods| of them, and no slot occurs twice, also after
\* set_time_periods has replaced the period list.
C27_SlotGrid ==
    Generated =>
        /\ DayMajorProduct
        /\ \A i, j \in DOMAIN call.time_slots :
                i # j => call.time_slots[i] # call.time_slots[j]

(***************************************************************************)
(* Properties of the toggles and the hard constraints.                     *)
(***************************************************************************)
\* C28 (as claimed): the assignment sets the built model accepts are the
\* same whatever the three toggles; a call with toggles accepts exactly what
\* the hard constraints accept, so distribute_courses_evenly does not make a
\* solvable instance unsolvable.
C28_TogglesKeepFeasibility ==
    Generated =>
        SolutionsWith(call.options, courses, faculty, classrooms, time_periods)
            = Solutions(courses, faculty, classrooms, time_periods)

(***************************************************************************)
(* Properties of the repair and the slot grid.                             *)
(***************************************************************************)
\* C29 (as claimed): every assignment handle_last_minute_changes adds, by the
\* residual solve or by the fallback, has a slot of the calling scheduler's
\* grid, its days and its current time_periods, also after set_time_periods.
C29_RepairOnGrid ==
    Repaired =>
        \A a \in AddedByRepair : a.time_slot \in Range(time_slots(time_periods))

(***************************************************************************)
(* Properties of the repair called twice.                                  *)
(***************************************************************************)
\* The last call was the second repair call, given the list the first one
\* returned and the arguments of the first.
RepairedAgain == Repaired /\ "first" \in DOMAIN call

\* C30: with no course added, the second call returns the list of the first
\* call as it is, without a solve and without writing to a faculty or a
\* classroom.
C30_RepairIdempotent ==
    RepairedAgain /\ given_additional_courses = <<>> =>
        /\ timetable = call.timetable
        /\ status = "NONE"
        /\ faculty = call.faculty
        /\ classrooms = call.classrooms

\* C30 witness: a first call that named a faculty unavailable and replaced
\* an assignment, and a second call that returned that list.
C30_Witness ==
    /\ RepairedAgain
    /\ given_additional_courses = <<>>
    /\ given_unavailable_faculty # {}
    /\ call.first # call.timetable
    /\ call.timetable # <<>>
    /\ timetable = call.timetable

====
